---- MODULE Spec2Model ----
(***************************************************************************)
(* The HTTP request surface of the SubprocessEngine (src/http.go) together *)
(* with the pipeline registry it works on.  Every handler is a small       *)
(* process; handlers run concurrently and interleave at the points where   *)
(* they touch shared state (pipelinesLock, the pipelines map, a pipeline). *)
(* NewPipeline, Kill, GetOutput and the pipeline life cycle are not part   *)
(* of src/http.go; they follow the written specification of the            *)
(* coordinator and of the pipeline state machine.                          *)
(***************************************************************************)
EXTENDS Integers, Sequences, FiniteSets, TLC

\* ---------------------------------------------------------------- bounds
\* Number of pipelines already registered when the run begins.
MaxInitial == 1

\* The goroutines that serve requests: two run at the same time.
Handlers == {1, 2}

\* ------------------------------------------------------------- constants
StatusOK == 200
StatusCreated == 201
StatusBadRequest == 400
StatusNotFound == 404
StatusPreconditionFailed == 412
StatusInternalServerError == 500

\* time.Duration counts nanoseconds: time.Millisecond is 1000000.
Millisecond == 1000000
Second == 1000 * Millisecond
DefaultNewPipelineDelay == 200 * Millisecond

\* The nil error.
Nil == "nil"
\* A *RunningPipeline: nil, or a pointer to the registered pipeline with
\* the given identity.
NilPipeline == <<>>
PointerTo(id) == <<id>>
IdOf(pipe) == pipe[1]

\* ------------------------------------------------------- strconv.Atoi
\* Strings are sequences of one-character strings.
Digits == {"0", "1", "2", "3", "4", "5", "6", "7", "8", "9"}

DigitVal(c) ==
    CASE c = "0" -> 0 [] c = "1" -> 1 [] c = "2" -> 2 [] c = "3" -> 3
      [] c = "4" -> 4 [] c = "5" -> 5 [] c = "6" -> 6 [] c = "7" -> 7
      [] c = "8" -> 8 [] c = "9" -> 9

RECURSIVE DecimalValue(_, _)
\* The value of a digit string, most significant digit first.
DecimalValue(s, acc) ==
    IF s = <<>> THEN acc
    ELSE DecimalValue(Tail(s), 10 * acc + DigitVal(Head(s)))

AllDigits(s) == \A i \in 1..Len(s) : s[i] \in Digits

\* strconv.Atoi: an optional sign followed by one or more decimal digits.
\* On a syntax error the result is the zero value 0 together with an error.
Atoi(s) ==
    LET signed == s # <<>> /\ Head(s) \in {"+", "-"}
        body   == IF signed THEN Tail(s) ELSE s
    IN  IF body = <<>> \/ ~AllDigits(body)
        THEN [val |-> 0, err |-> "ErrSyntax"]
        ELSE [val |-> IF signed /\ Head(s) = "-"
                      THEN 0 - DecimalValue(body, 0)
                      ELSE DecimalValue(body, 0),
              err |-> Nil]

\* ------------------------------------------------- time.ParseDuration
\* unitMap of package time.  Minute and hour are written as products so
\* that they are only evaluated for an input that uses them.
UnitKnown(u) ==
    u \in {<<"n", "s">>, <<"u", "s">>, <<"m", "s">>, <<"s">>, <<"m">>, <<"h">>}

UnitValue(u) ==
    CASE u = <<"n", "s">> -> 1
      [] u = <<"u", "s">> -> 1000
      [] u = <<"m", "s">> -> Millisecond
      [] u = <<"s">>      -> Second
      [] u = <<"m">>      -> 60 * Second
      [] u = <<"h">>      -> 3600 * Second

RECURSIVE DigitPrefixLen(_)
\* Length of the longest prefix of s made of digits (leadingInt).
DigitPrefixLen(s) ==
    IF s = <<>> \/ Head(s) \notin Digits THEN 0
    ELSE 1 + DigitPrefixLen(Tail(s))

RECURSIVE UnitPrefixLen(_)
\* Length of the longest prefix of s made of neither digits nor '.'.
UnitPrefixLen(s) ==
    IF s = <<>> \/ Head(s) \in Digits \/ Head(s) = "." THEN 0
    ELSE 1 + UnitPrefixLen(Tail(s))

RECURSIVE ParseDurationLoop(_, _)
\* The loop of ParseDuration over the groups <digits><unit>; d is the sum
\* so far.  Fractions ("1.5s") are outside the inputs drawn here and are
\* answered as the parser answers a '.' without digits: an error.
ParseDurationLoop(s, d) ==
    IF s = <<>> THEN [val |-> d, err |-> Nil]
    ELSE LET n == DigitPrefixLen(s)
             rest == SubSeq(s, n + 1, Len(s))
             u == UnitPrefixLen(rest)
             unit == SubSeq(rest, 1, u)
         IN  IF n = 0 THEN [val |-> 0, err |-> "invalid duration"]
             ELSE IF u = 0 THEN [val |-> 0, err |-> "missing unit"]
             ELSE IF ~UnitKnown(unit) THEN [val |-> 0, err |-> "unknown unit"]
             ELSE ParseDurationLoop(SubSeq(rest, u + 1, Len(rest)),
                      d + DecimalValue(SubSeq(s, 1, n), 0) * UnitValue(unit))

\* time.ParseDuration: [-+]?([0-9]+[a-z]+)+, or "0".
ParseDuration(s) ==
    LET signed == s # <<>> /\ Head(s) \in {"+", "-"}
        neg    == signed /\ Head(s) = "-"
        body   == IF signed THEN Tail(s) ELSE s
        r      == ParseDurationLoop(body, 0)
    IN  IF body = <<"0">> THEN [val |-> 0, err |-> Nil]
        ELSE IF body = <<>> THEN [val |-> 0, err |-> "invalid duration"]
        ELSE IF r.err # Nil THEN r
        ELSE [val |-> IF neg THEN 0 - r.val ELSE r.val, err |-> Nil]

\* --------------------------------------------------- shellquote.Split
splitChars == {" ", "\n", "\t"}
singleChar == "'"
doubleChar == "\""
escapeChar == "\\"
\* The backquote character is written "backquote".
doubleEscapeChars == {"$", "backquote", "\"", "\n", "\\"}

RECURSIVE IndexOf(_, _, _)
\* Index of the first c in s at or after position i, 0 when there is none.
IndexOf(s, c, i) ==
    IF i > Len(s) THEN 0
    ELSE IF s[i] = c THEN i
    ELSE IndexOf(s, c, i + 1)

RECURSIVE SplitRaw(_, _)
RECURSIVE SplitDouble(_, _)
\* splitWord, label raw: unquoted text up to the next split character.
SplitRaw(input, buf) ==
    IF input = <<>> THEN [word |-> buf, rest |-> <<>>, err |-> Nil]
    ELSE LET c == Head(input)
             cur == Tail(input)
         IN  IF c = singleChar
             THEN \* label single: everything up to the closing quote
                  LET i == IndexOf(cur, singleChar, 1)
                  IN  IF i = 0
                      THEN [word |-> <<>>, rest |-> <<>>,
                            err |-> "UnterminatedSingleQuoteError"]
                      ELSE SplitRaw(SubSeq(cur, i + 1, Len(cur)),
                                    buf \o SubSeq(cur, 1, i - 1))
             ELSE IF c = doubleChar THEN SplitDouble(cur, buf)
             ELSE IF c = escapeChar
             THEN \* label escape: the next character is taken literally
                  IF cur = <<>>
                  THEN [word |-> <<>>, rest |-> <<>>,
                        err |-> "UnterminatedEscapeError"]
                  ELSE IF Head(cur) = "\n" THEN SplitRaw(Tail(cur), buf)
                  ELSE SplitRaw(Tail(cur), Append(buf, Head(cur)))
             ELSE IF c \in splitChars
             THEN [word |-> buf, rest |-> cur, err |-> Nil]
             ELSE SplitRaw(cur, Append(buf, c))

\* splitWord, label double: text inside double quotes.
SplitDouble(input, buf) ==
    IF input = <<>>
    THEN [word |-> <<>>, rest |-> <<>>, err |-> "UnterminatedDoubleQuoteError"]
    ELSE LET c == Head(input)
             cur == Tail(input)
         IN  IF c = doubleChar THEN SplitRaw(cur, buf)
             ELSE IF c = escapeChar /\ cur # <<>> /\ Head(cur) \in doubleEscapeChars
             THEN IF Head(cur) = "\n" THEN SplitDouble(Tail(cur), buf)
                  ELSE SplitDouble(Tail(cur), Append(buf, Head(cur)))
             ELSE SplitDouble(cur, Append(buf, c))

RECURSIVE SplitLoop(_, _)
\* The loop of Split: skip separators, then read one word.
SplitLoop(input, words) ==
    IF input = <<>> THEN [words |-> words, err |-> Nil]
    ELSE IF Head(input) \in splitChars THEN SplitLoop(Tail(input), words)
    ELSE IF Head(input) = escapeChar /\ Tail(input) = <<>>
    THEN [words |-> <<>>, err |-> "UnterminatedEscapeError"]
    ELSE IF Head(input) = escapeChar /\ Head(Tail(input)) = "\n"
    THEN SplitLoop(Tail(Tail(input)), words)
    ELSE LET w == SplitRaw(input, <<>>)
         IN  IF w.err # Nil THEN [words |-> <<>>, err |-> w.err]
             ELSE SplitLoop(w.rest, Append(words, w.word))

\* shellquote.Split: the words of a /bin/sh command line.
Split(input) == SplitLoop(input, <<>>)

\* ----------------------------------------------------------- sort.Ints
RECURSIVE InsertSorted(_, _)
InsertSorted(x, s) ==
    IF s = <<>> THEN <<x>>
    ELSE IF x <= Head(s) THEN <<x>> \o s
    ELSE <<Head(s)>> \o InsertSorted(x, Tail(s))

RECURSIVE SortInts(_)
\* sort.Ints: the same integers in increasing order.
SortInts(s) ==
    IF s = <<>> THEN <<>>
    ELSE InsertSorted(Head(s), SortInts(Tail(s)))


\* ------------------------------------------------------------ the state
VARIABLES
    pipelines,       \* engine.pipelines: identity -> the pipeline stored under it
    nextPipelineId,  \* the coordinator's identity counter
    pipelinesLock,   \* engine.pipelinesLock: the handlers that hold the mutex
    pc,              \* per handler: the statement it executes next
    req,             \* per handler: the request it serves
    loc,             \* per handler: the local variables of its functions
    replies,         \* per handler: what it wrote to the response, in order
    lookups,         \* per handler: the keys it read engine.pipelines with
    ops,             \* per handler: the Kill / GetOutput calls it made, each
                     \* with the status the pipeline had when it was called
    calls,           \* per handler: the NewPipeline calls it made
    instants,        \* per handler: the key sets of the map while it listed
    steady,          \* per handler: no pipeline changed while it listed
    workload         \* the set the requests of this run are drawn from

vars == <<pipelines, nextPipelineId, pipelinesLock, pc, req, loc, replies,
          lookups, ops, calls, instants, steady, workload>>

\* The status values of a pipeline.
StatusPending == "Pending"
StatusRunning == "Running"
StatusFailed == "Failed"
StatusKilled == "Killed"
StatusFinished == "Finished"
Statuses ==
    {StatusPending, StatusRunning, StatusFailed, StatusKilled, StatusFinished}

\* ---------------------------------------------------------- the requests
GetPipelines == "GET /pipelines"
GetRunning == "GET /running"
PostPipeline == "POST /pipeline"
GetPipeline == "GET /pipeline/:id"
GetPipelineOut == "GET /pipeline/:id/out"
DeletePipeline == "DELETE /pipeline/:id"

ListRoutes == {GetPipelines, GetRunning}
IdRoutes == {GetPipeline, GetPipelineOut, DeletePipeline}

\* Values of the :id path parameter.
IdStrings == {<<"0">>, <<"1">>, <<"a">>}

Request(route, id, body, bodyErr, delay, params) ==
    [route |-> route, id |-> id, body |-> body, bodyErr |-> bodyErr,
     delay |-> delay, params |-> params]

\* POST /pipeline requests: body, body read error, delay parameter and
\* params parameter; <<>> is the empty body and the absent parameter.
PostRequests ==
    {Request(PostPipeline, <<>>, <<"x">>, Nil, <<>>, <<>>),
     Request(PostPipeline, <<>>, <<"x">>, Nil, <<"1", "s">>, <<"a", " ", "b">>),
     Request(PostPipeline, <<>>, <<"x">>, Nil, <<"-", "1", "s">>, <<>>),
     Request(PostPipeline, <<>>, <<>>, Nil, <<>>, <<>>),
     Request(PostPipeline, <<>>, <<"x">>, Nil, <<"1", "x">>, <<>>),
     Request(PostPipeline, <<>>, <<"x">>, Nil, <<>>, <<"'", "a">>),
     Request(PostPipeline, <<>>, <<"x">>, "read error", <<>>, <<>>)}

\* Requests that name a pipeline.
IdRequests ==
    {Request(r, id, <<>>, Nil, <<>>, <<>>) : r \in IdRoutes, id \in IdStrings}

\* Listings together with a creation and with requests on pipeline 0.
MixedRequests ==
    {Request(r, <<>>, <<>>, Nil, <<>>, <<>>) : r \in ListRoutes}
    \cup {Request(r, <<"0">>, <<>>, Nil, <<>>, <<>>) : r \in IdRoutes}
    \cup {Request(PostPipeline, <<>>, <<"x">>, Nil, <<>>, <<>>)}

\* The requests of one run are drawn from one of these sets.
Workloads == {"ids", "post", "mixed"}

Requests(w) ==
    CASE w = "ids" -> IdRequests
      [] w = "post" -> PostRequests
      [] w = "mixed" -> MixedRequests

NoRequest == Request("none", <<>>, <<>>, Nil, <<>>, <<>>)

\* The local variables of a handler before it runs.
NoLocals ==
    [id |-> 0, err |-> Nil, pipeline |-> NilPipeline, exists |-> FALSE,
     response |-> <<>>, visited |-> {},
     script |-> <<>>, delay |-> 0, extraParams |-> <<>>]

\* c.Param / c.Query of gin: the request's parameters.
Param(h) == req[h].id
Query(h, name) == IF name = "delay" THEN req[h].delay ELSE req[h].params

\* The response after one more write of a status and a body.  gin's
\* c.Status, c.Writer.Write and c.JSON all end here.  A body is a pair of
\* what it is ("text", "ids", "pipeline", "output") and its content.
Written(h, code, body) ==
    [replies EXCEPT ![h] = Append(@, [code |-> code, body |-> body])]

\* replyString: set the status code, write the formatted message.
replyString(h, code, message) == Written(h, code, <<"text", message>>)

\* pipelineResponse: the pipeline itself is what gets serialised.
pipelineResponse(id) == <<"pipeline", id>>

Goto(h, label) == [pc EXCEPT ![h] = label]

\* The listings that hold the lock, once the map has become p, have seen
\* one more key set, and have seen a pipeline change if p differs from the
\* map on a key they share.
Listing(h) == pc[h] = "sf_range"

SeenKeys(p) ==
    [h \in Handlers |->
        IF Listing(h) THEN instants[h] \cup {DOMAIN p} ELSE instants[h]]

SeenSteady(p) ==
    [h \in Handlers |->
        IF Listing(h)
        THEN /\ steady[h]
             /\ \A i \in DOMAIN p \cap DOMAIN pipelines : p[i] = pipelines[i]
        ELSE steady[h]]

\* ------------------------------------------------------------ Init
\* Identities the coordinator may issue first.
FirstIds == {0, 1}

\* The registry holds the pipelines of earlier requests: consecutive
\* identities below the counter, each anywhere in its life cycle.
Init ==
    /\ \E first \in FirstIds, n \in 0..MaxInitial :
         /\ nextPipelineId = first + n
         /\ \E st \in [first..(first + n - 1) -> Statuses] :
              pipelines = [i \in first..(first + n - 1) |->
                              [Id |-> i, Status |-> st[i]]]
    /\ pipelinesLock = {}
    /\ pc = [h \in Handlers |-> "idle"]
    /\ req = [h \in Handlers |-> NoRequest]
    /\ loc = [h \in Handlers |-> NoLocals]
    /\ replies = [h \in Handlers |-> <<>>]
    /\ lookups = [h \in Handlers |-> <<>>]
    /\ ops = [h \in Handlers |-> <<>>]
    /\ calls = [h \in Handlers |-> <<>>]
    /\ instants = [h \in Handlers |-> {}]
    /\ steady = [h \in Handlers |-> TRUE]
    /\ workload \in Workloads

\* ------------------------------------------------------------ ServeHttp
\* The handler each route is registered with: its first statement.
Route(route) ==
    CASE route \in ListRoutes -> "sf_lock"
      [] route = PostPipeline -> "np_read"
      [] route \in IdRoutes -> "gp_parse"

\* A request arrives and the router starts its handler in a goroutine.
\* Each goroutine serves one request of the run.
ServeHttp(h) ==
    /\ pc[h] = "idle"
    /\ \E r \in Requests(workload) :
         /\ req' = [req EXCEPT ![h] = r]
         /\ pc' = Goto(h, Route(r.route))
    /\ UNCHANGED <<pipelines, nextPipelineId, pipelinesLock, loc, replies,
                   lookups, ops, calls, instants, steady, workload>>

\* --------------------------------------------- serveFilteredPipelineIds
\* The predicate of servePipelines and of serveRunningPipelines.
accept(route, pipe) ==
    IF route = GetRunning THEN pipe.Status = StatusRunning ELSE TRUE

\* A Lock that does not wait for the holder of the mutex.
LockNeverWaits == TRUE

\* engine.pipelinesLock.Lock(): blocks while another goroutine holds it.
LockFree == pipelinesLock = {}

\* A handler that returns without Unlock keeps the mutex.
UnlockMissing(h) == pipelinesLock

\* A getPipeline that returns on a missing key before it unlocks.
UnlockSkippedWhenMissing(h) ==
    IF pc[h] = "gp_lookup" /\ loc[h].id \notin DOMAIN pipelines
    THEN pipelinesLock
    ELSE pipelinesLock \ {h}

\* engine.pipelinesLock.Unlock(): the holders of the mutex afterwards.
Unlock(h) == pipelinesLock \ {h}

\* Lock, then make the empty response slice.
SfLock(h) ==
    /\ pc[h] = "sf_lock"
    /\ LockFree
    /\ pipelinesLock' = pipelinesLock \cup {h}
    /\ loc' = [loc EXCEPT ![h].response = <<>>, ![h].visited = {}]
    /\ instants' = [instants EXCEPT ![h] = {DOMAIN pipelines}]
    /\ steady' = [steady EXCEPT ![h] = TRUE]
    /\ pc' = Goto(h, "sf_range")
    /\ UNCHANGED <<pipelines, nextPipelineId, req, replies, lookups, ops,
                   calls, workload>>

\* The response after the loop body has run for pipe.
Collect(route, response, pipe) ==
    IF accept(route, pipe) THEN Append(response, pipe.Id) ELSE response

\* One iteration of the range loop: the map yields its entries in any order.
SfRange(h) ==
    /\ pc[h] = "sf_range"
    /\ \E id \in DOMAIN pipelines \ loc[h].visited :
         loc' = [loc EXCEPT
                   ![h].visited = @ \cup {id},
                   ![h].response = Collect(req[h].route, @, pipelines[id])]
    /\ UNCHANGED <<pipelines, nextPipelineId, pipelinesLock, pc, req, replies,
                   lookups, ops, calls, instants, steady, workload>>

\* The loop has yielded every entry: Unlock.
SfUnlock(h) ==
    /\ pc[h] = "sf_range"
    /\ DOMAIN pipelines \subseteq loc[h].visited
    /\ pipelinesLock' = Unlock(h)
    /\ pc' = Goto(h, "sf_reply")
    /\ UNCHANGED <<pipelines, nextPipelineId, req, loc, replies, lookups, ops,
                   calls, instants, steady, workload>>

\* A listing that sends the identities in the order the map yielded them.
ListingBodyUnsorted(response) == response

\* What the listing sends: the collected identities after sort.Ints.
ListingBody(response) == SortInts(response)

\* sort.Ints(response); c.JSON(http.StatusOK, response)
SfReply(h) ==
    /\ pc[h] = "sf_reply"
    /\ replies' = Written(h, StatusOK, <<"ids", ListingBody(loc[h].response)>>)
    /\ pc' = Goto(h, "done")
    /\ UNCHANGED <<pipelines, nextPipelineId, pipelinesLock, req, loc, lookups,
                   ops, calls, instants, steady, workload>>

\* ---------------------------------------------------------- getPipeline
\* Where getPipeline returns to.
Caller(route) ==
    CASE route = GetPipeline -> "sg_pipe"
      [] route = GetPipelineOut -> "so_pipe"
      [] route = DeletePipeline -> "sk_pipe"

\* idStr := c.Param("id"); id, err := strconv.Atoi(idStr); reply 400 on error.
\* The error branch has no return: the lookup follows in either case.
GpParse(h) ==
    /\ pc[h] = "gp_parse"
    /\ LET r == Atoi(Param(h))
       IN  /\ loc' = [loc EXCEPT ![h].id = r.val, ![h].err = r.err]
           /\ replies' = IF r.err # Nil
                         THEN replyString(h, StatusBadRequest,
                                          "Failed to parse parameter")
                         ELSE replies
           /\ pc' = Goto(h, "gp_lock")
    /\ UNCHANGED <<pipelines, nextPipelineId, pipelinesLock, req, lookups, ops,
                   calls, instants, steady, workload>>

\* engine.pipelinesLock.Lock()
GpLock(h) ==
    /\ pc[h] = "gp_lock"
    /\ LockFree
    /\ pipelinesLock' = pipelinesLock \cup {h}
    /\ pc' = Goto(h, "gp_lookup")
    /\ UNCHANGED <<pipelines, nextPipelineId, req, loc, replies, lookups, ops,
                   calls, instants, steady, workload>>

\* A lookup that enters a pipeline under a key it does not find.
GpLookupCreates(h) ==
    /\ pc[h] = "gp_lookup"
    /\ pipelines' = [i \in DOMAIN pipelines \cup {loc[h].id} |->
                        IF i \in DOMAIN pipelines THEN pipelines[i]
                        ELSE [Id |-> i, Status |-> StatusPending]]
    /\ loc' = [loc EXCEPT ![h].exists = TRUE,
                           ![h].pipeline = PointerTo(loc[h].id)]
    /\ lookups' = [lookups EXCEPT ![h] = Append(@, loc[h].id)]
    /\ pipelinesLock' = pipelinesLock \ {h}
    /\ pc' = Goto(h, "gp_return")
    /\ UNCHANGED <<nextPipelineId, req, replies, ops, calls, instants, steady,
                   workload>>

\* pipeline, exists := engine.pipelines[id]; Unlock.  A pointer to a
\* registered pipeline is written as the pipeline's identity.
GpLookup(h) ==
    /\ pc[h] = "gp_lookup"
    /\ LET exists == loc[h].id \in DOMAIN pipelines
       IN  loc' = [loc EXCEPT ![h].exists = exists,
                              ![h].pipeline = IF exists THEN PointerTo(loc[h].id)
                                              ELSE NilPipeline]
    /\ lookups' = [lookups EXCEPT ![h] = Append(@, loc[h].id)]
    /\ pipelinesLock' = Unlock(h)
    /\ pc' = Goto(h, "gp_return")
    /\ UNCHANGED <<pipelines, nextPipelineId, req, replies, ops, calls,
                   instants, steady, workload>>

\* A getPipeline that answers 404 whether or not the key exists.
NotFoundReplyAlways(h) ==
    replyString(h, StatusNotFound, "Pipeline does not exist")

\* A getPipeline that returns nil without a reply.
NotFoundReplyMissing(h) == replies

\* if !exists { reply 404 }
NotFoundReply(h) ==
    IF ~loc[h].exists
    THEN replyString(h, StatusNotFound, "Pipeline does not exist")
    ELSE replies

\* The not-found reply; return pipeline
GpReturn(h) ==
    /\ pc[h] = "gp_return"
    /\ replies' = NotFoundReply(h)
    /\ pc' = Goto(h, Caller(req[h].route))
    /\ UNCHANGED <<pipelines, nextPipelineId, pipelinesLock, req, loc, lookups,
                   ops, calls, instants, steady, workload>>

\* ------------------------------------------- the pipeline's operations
\* The errors Kill and GetOutput may return; Nil is success.
KillErrors == {Nil, "kill failed"}
OutputErrors == {Nil, "output failed"}

\* A Kill that returns before the status has changed.
KillReturnsEarly(id, err) == pipelines

\* A Kill that also takes the pipeline out of the map.
KillEvicts(id, err) ==
    IF err = Nil THEN [i \in DOMAIN pipelines \ {id} |-> pipelines[i]]
    ELSE pipelines

\* A Kill that marks the pipeline Killed whatever its status was.
KillOverwrites(id, err) ==
    IF err = Nil THEN [pipelines EXCEPT ![id].Status = StatusKilled]
    ELSE pipelines

\* Kill: on success a pipeline that has not ended becomes Killed and a
\* pipeline that has ended stays as it is; on failure nothing changes.
Kill(id, err) ==
    IF err = Nil /\ pipelines[id].Status \in {StatusPending, StatusRunning}
    THEN [pipelines EXCEPT ![id].Status = StatusKilled]
    ELSE pipelines

\* GetOutput: the bytes captured so far.
GetOutput(id) == <<"output", id>>

\* ----------------------------------------------------- serveGetPipeline
\* if pipe != nil { c.JSON(http.StatusOK, engine.pipelineResponse(pipe)) }
ServeGetPipeline(h) ==
    /\ pc[h] = "sg_pipe"
    /\ replies' = IF loc[h].pipeline # NilPipeline
                  THEN Written(h, StatusOK,
                               pipelineResponse(IdOf(loc[h].pipeline)))
                  ELSE replies
    /\ pc' = Goto(h, "done")
    /\ UNCHANGED <<pipelines, nextPipelineId, pipelinesLock, req, loc, lookups,
                   ops, calls, instants, steady, workload>>

\* ----------------------------------------------- serveGetPipelineOutput
\* The status code for the outcome of GetOutput.
OutputStatus(err) ==
    IF err = Nil THEN StatusOK ELSE StatusInternalServerError

\* if pipe != nil { out, err := pipe.GetOutput(); reply 200 out / 500 }
ServeGetPipelineOutput(h) ==
    /\ pc[h] = "so_pipe"
    /\ IF loc[h].pipeline # NilPipeline
       THEN \E err \in OutputErrors :
              /\ ops' = [ops EXCEPT ![h] = Append(@,
                            [op |-> "GetOutput", id |-> IdOf(loc[h].pipeline),
                             err |-> err,
                             was |-> pipelines[IdOf(loc[h].pipeline)].Status])]
              /\ replies' = IF err = Nil
                            THEN Written(h, OutputStatus(err),
                                         GetOutput(IdOf(loc[h].pipeline)))
                            ELSE replyString(h, OutputStatus(err),
                                             "Error obtaining output")
       ELSE UNCHANGED <<ops, replies>>
    /\ pc' = Goto(h, "done")
    /\ UNCHANGED <<pipelines, nextPipelineId, pipelinesLock, req, loc, lookups,
                   calls, instants, steady, workload>>

\* ---------------------------------------------------- serveKillPipeline
\* A handler that answers 200 whatever Kill returned.
KillStatusAlwaysOK(err) == StatusOK

\* The status code for the outcome of Kill.
KillStatus(err) ==
    IF err # Nil THEN StatusInternalServerError ELSE StatusOK

\* if pipe != nil { err := pipe.Kill(); reply 500 / 200 pipe }
ServeKillPipeline(h) ==
    /\ pc[h] = "sk_pipe"
    /\ IF loc[h].pipeline # NilPipeline
       THEN \E err \in KillErrors :
              /\ pipelines' = Kill(IdOf(loc[h].pipeline), err)
              /\ ops' = [ops EXCEPT ![h] = Append(@,
                            [op |-> "Kill", id |-> IdOf(loc[h].pipeline),
                             err |-> err,
                             was |-> pipelines[IdOf(loc[h].pipeline)].Status])]
              /\ replies' = IF err # Nil
                            THEN replyString(h, KillStatus(err),
                                             "Error killing pipeline")
                            ELSE Written(h, KillStatus(err),
                                         <<"pipeline", IdOf(loc[h].pipeline)>>)
       ELSE UNCHANGED <<pipelines, ops, replies>>
    /\ instants' = SeenKeys(pipelines')
    /\ steady' = SeenSteady(pipelines')
    /\ pc' = Goto(h, "done")
    /\ UNCHANGED <<nextPipelineId, pipelinesLock, req, loc, lookups, calls,
                   workload>>

\* ----------------------------------------------------- serveNewPipeline
\* A validation that lets an unparsable params parameter through.
RejectionWithoutParams(r) ==
    IF r.bodyErr # Nil THEN StatusInternalServerError
    ELSE IF Len(r.body) = 0 THEN StatusBadRequest
    ELSE IF r.delay # <<>> /\ ParseDuration(r.delay).err # Nil THEN StatusBadRequest
    ELSE 0

\* The reply that ends the handler before NewPipeline is called, 0 when
\* the request passes: body unreadable, body empty, delay or params
\* present and not parsable.
Rejection(r) ==
    IF r.bodyErr # Nil THEN StatusInternalServerError
    ELSE IF Len(r.body) = 0 THEN StatusBadRequest
    ELSE IF r.delay # <<>> /\ ParseDuration(r.delay).err # Nil THEN StatusBadRequest
    ELSE IF r.params # <<>> /\ Split(r.params).err # Nil THEN StatusBadRequest
    ELSE 0

\* A handler that forgets to assign the parsed delay.
DelayArgumentIgnored(delayStr) == DefaultNewPipelineDelay

\* delay := DefaultNewPipelineDelay, replaced by the parsed parameter.
DelayArgument(delayStr) ==
    IF delayStr # <<>> THEN ParseDuration(delayStr).val
    ELSE DefaultNewPipelineDelay

\* var extraParams []string, replaced by the split parameter.
ParamsArgument(paramStr) ==
    IF paramStr # <<>> THEN Split(paramStr).words ELSE <<>>

\* From reading the body to the call of engine.NewPipeline.
ServeNewPipelineRead(h) ==
    /\ pc[h] = "np_read"
    /\ LET code == Rejection(req[h])
           args == [script |-> req[h].body,
                    delay |-> DelayArgument(Query(h, "delay")),
                    extraParams |-> ParamsArgument(Query(h, "params"))]
       IN  IF code # 0
           THEN /\ replies' = replyString(h, code, "invalid request")
                /\ pc' = Goto(h, "done")
                /\ UNCHANGED <<loc, calls>>
           ELSE /\ loc' = [loc EXCEPT ![h].script = args.script,
                                      ![h].delay = args.delay,
                                      ![h].extraParams = args.extraParams]
                /\ calls' = [calls EXCEPT ![h] = Append(@, args)]
                /\ pc' = Goto(h, "np_call")
                /\ UNCHANGED replies
    /\ UNCHANGED <<pipelines, nextPipelineId, pipelinesLock, req, lookups, ops,
                   instants, steady, workload>>

\* A nil pointer dereference panics; the server recovers the panic in the
\* goroutine of the request: a recovery middleware answers 500, without
\* one the connection is closed and nothing is written.
PanicOutcomes(h) ==
    {replyString(h, StatusInternalServerError, "panic"), replies}

\* pipeline, err := engine.NewPipeline(...) has returned: reply 412 with
\* pipeline.Id on error, 201 with the pipeline otherwise.
ServeNewPipelineReply(h) ==
    /\ pc[h] = "np_reply"
    /\ IF loc[h].err # Nil
       THEN IF loc[h].pipeline = NilPipeline
            THEN replies' \in PanicOutcomes(h)
            ELSE replies' = replyString(h, StatusPreconditionFailed,
                                        "Error starting pipeline")
       ELSE replies' = Written(h, StatusCreated, pipelineResponse(IdOf(loc[h].pipeline)))
    /\ pc' = Goto(h, "done")
    /\ UNCHANGED <<pipelines, nextPipelineId, pipelinesLock, req, loc, lookups,
                   ops, calls, instants, steady, workload>>

\* ---------------------------------------------------------- NewPipeline
\* Construction fails before anything is registered: an error and no
\* pipeline are returned.
NewPipelineFail(h) ==
    /\ pc[h] = "np_call"
    /\ loc' = [loc EXCEPT ![h].pipeline = NilPipeline,
                           ![h].err = "construction failed"]
    /\ pc' = Goto(h, "np_reply")
    /\ UNCHANGED <<pipelines, nextPipelineId, pipelinesLock, req, replies,
                   lookups, ops, calls, instants, steady, workload>>

\* The counter and the map are guarded by the one lock.
NewPipelineLock(h) ==
    /\ pc[h] = "np_call"
    /\ LockFree
    /\ pipelinesLock' = pipelinesLock \cup {h}
    /\ pc' = Goto(h, "np_alloc")
    /\ UNCHANGED <<pipelines, nextPipelineId, req, loc, replies, lookups, ops,
                   calls, instants, steady, workload>>

\* A counter that is read and never moved on.
NextIdentityStuck(n) == n

\* The counter after the identity n has been issued.
NextIdentity(n) == n + 1

\* allocateIdentity, first half: the counter's value is the identity.
NewPipelineAlloc(h) ==
    /\ pc[h] = "np_alloc"
    /\ loc' = [loc EXCEPT ![h].id = nextPipelineId]
    /\ pc' = Goto(h, "np_advance")
    /\ UNCHANGED <<pipelines, nextPipelineId, pipelinesLock, req, replies,
                   lookups, ops, calls, instants, steady, workload>>

\* allocateIdentity, second half: the counter moves past the identity.
NewPipelineAdvance(h) ==
    /\ pc[h] = "np_advance"
    /\ nextPipelineId' = NextIdentity(loc[h].id)
    /\ pc' = Goto(h, "np_insert")
    /\ UNCHANGED <<pipelines, pipelinesLock, req, loc, replies, lookups, ops,
                   calls, instants, steady, workload>>

\* insert: the constructed Pending pipeline enters the map; Unlock.
NewPipelineInsert(h) ==
    /\ pc[h] = "np_insert"
    /\ loc[h].id \notin DOMAIN pipelines
    /\ pipelines' = [i \in DOMAIN pipelines \cup {loc[h].id} |->
                        IF i = loc[h].id
                        THEN [Id |-> i, Status |-> StatusPending]
                        ELSE pipelines[i]]
    /\ instants' = SeenKeys(pipelines')
    /\ steady' = SeenSteady(pipelines')
    /\ pipelinesLock' = pipelinesLock \ {h}
    /\ pc' = Goto(h, "np_return")
    /\ UNCHANGED <<nextPipelineId, req, loc, replies, lookups, ops, calls,
                   workload>>

\* The delayed start is scheduled and the pipeline returned; a start
\* failure detected at once fails the pipeline and is returned with it.
NewPipelineReturn(h) ==
    /\ pc[h] = "np_return"
    /\ \/ /\ loc' = [loc EXCEPT ![h].pipeline = PointerTo(loc[h].id),
                                 ![h].err = Nil]
          /\ UNCHANGED <<pipelines, instants, steady>>
       \/ /\ pipelines[loc[h].id].Status = StatusPending
          /\ pipelines' = [pipelines EXCEPT ![loc[h].id].Status = StatusFailed]
          /\ instants' = SeenKeys(pipelines')
          /\ steady' = SeenSteady(pipelines')
          /\ loc' = [loc EXCEPT ![h].pipeline = PointerTo(loc[h].id),
                                 ![h].err = "start failed"]
    /\ pc' = Goto(h, "np_reply")
    /\ UNCHANGED <<nextPipelineId, pipelinesLock, req, replies, lookups, ops,
                   calls, workload>>

\* ------------------------------------------------- the pipeline's life
\* A delayed start that a kill does not cancel.
StartNotCancelled(i) == pipelines[i].Status \in {StatusPending, StatusKilled}

\* The delayed start is still scheduled: nothing ended or cancelled it.
StartDue(i) == pipelines[i].Status = StatusPending

\* The delayed start fires: the process runs, or could not be started.
StartPipeline(i) ==
    /\ i \in DOMAIN pipelines
    /\ StartDue(i)
    /\ \E s \in {StatusRunning, StatusFailed} :
         pipelines' = [pipelines EXCEPT ![i].Status = s]
    /\ instants' = SeenKeys(pipelines')
    /\ steady' = SeenSteady(pipelines')
    /\ UNCHANGED <<nextPipelineId, pipelinesLock, pc, req, loc, replies,
                   lookups, ops, calls, workload>>

\* The process of a running pipeline exits.
ExitPipeline(i) ==
    /\ i \in DOMAIN pipelines
    /\ pipelines[i].Status = StatusRunning
    /\ pipelines' = [pipelines EXCEPT ![i].Status = StatusFinished]
    /\ instants' = SeenKeys(pipelines')
    /\ steady' = SeenSteady(pipelines')
    /\ UNCHANGED <<nextPipelineId, pipelinesLock, pc, req, loc, replies,
                   lookups, ops, calls, workload>>

\* ------------------------------------------------------------- Next
\* Identities that may ever be issued in a run.
Ids == 0..(1 + MaxInitial + Cardinality(Handlers))

Next ==
    \/ \E h \in Handlers : ServeHttp(h)
    \/ \E h \in Handlers : SfLock(h)
    \/ \E h \in Handlers : SfRange(h)
    \/ \E h \in Handlers : SfUnlock(h)
    \/ \E h \in Handlers : SfReply(h)
    \/ \E h \in Handlers : GpParse(h)
    \/ \E h \in Handlers : GpLock(h)
    \/ \E h \in Handlers : GpLookup(h)
    \/ \E h \in Handlers : GpReturn(h)
    \/ \E h \in Handlers : ServeGetPipeline(h)
    \/ \E h \in Handlers : ServeGetPipelineOutput(h)
    \/ \E h \in Handlers : ServeKillPipeline(h)
    \/ \E h \in Handlers : ServeNewPipelineRead(h)
    \/ \E h \in Handlers : ServeNewPipelineReply(h)
    \/ \E h \in Handlers : NewPipelineFail(h)
    \/ \E h \in Handlers : NewPipelineLock(h)
    \/ \E h \in Handlers : NewPipelineAlloc(h)
    \/ \E h \in Handlers : NewPipelineAdvance(h)
    \/ \E h \in Handlers : NewPipelineInsert(h)
    \/ \E h \in Handlers : NewPipelineReturn(h)
    \/ \E i \in Ids : StartPipeline(i)
    \/ \E i \in Ids : ExitPipeline(i)

Spec == Init /\ [][Next]_vars

\* The next statement of the goroutine that serves handler h's request.
HandlerStep(h) ==
    \/ SfLock(h) \/ SfRange(h) \/ SfUnlock(h) \/ SfReply(h)
    \/ GpParse(h) \/ GpLock(h) \/ GpLookup(h) \/ GpReturn(h)
    \/ ServeGetPipeline(h) \/ ServeGetPipelineOutput(h)
    \/ ServeKillPipeline(h)
    \/ ServeNewPipelineRead(h) \/ ServeNewPipelineReply(h)
    \/ NewPipelineFail(h) \/ NewPipelineLock(h) \/ NewPipelineAlloc(h)
    \/ NewPipelineAdvance(h) \/ NewPipelineInsert(h) \/ NewPipelineReturn(h)

\* The Go scheduler runs every goroutine that can run, and Kill and
\* GetOutput return: a handler that can take a step eventually takes one.
FairSpec == Spec /\ \A h \in Handlers : WF_vars(HandlerStep(h))

\* =================================================================
\* The claims.
\* =================================================================
Done(h) == pc[h] = "done"

\* The status codes a handler wrote, in order.
Codes(h) == [i \in 1..Len(replies[h]) |-> replies[h][i].code]

LastReply(h) == replies[h][Len(replies[h])]

Range(seq) == {seq[i] : i \in 1..Len(seq)}

Ascending(seq) == \A i \in 1..(Len(seq) - 1) : seq[i] < seq[i + 1]

\* A step taken by handler h.
StepOf(h) == pc'[h] # pc[h] \/ loc'[h] # loc[h]

IdRequest(h) == req[h].route \in IdRoutes

ParsedId(h) == Atoi(req[h].id)

\* C1: a request on an id route whose id does not parse as an integer is
\* answered 400 and the handler returns: it never reads engine.pipelines.
C1_MalformedIdNeverLooksUp ==
    \A h \in Handlers :
        (IdRequest(h) /\ ParsedId(h).err # Nil) =>
            /\ lookups[h] = <<>>
            /\ Done(h) => Codes(h) = <<StatusBadRequest>>

\* C2: a request on an id route whose id is an integer that is no key of
\* the map is answered 404 (and nothing else), calls neither Kill nor
\* GetOutput, and none of its steps changes the map or a pipeline.
C2_UnknownIdStates ==
    \A h \in Handlers :
        (IdRequest(h) /\ ParsedId(h).err = Nil
             /\ ParsedId(h).val \notin DOMAIN pipelines) =>
            /\ ops[h] = <<>>
            /\ Done(h) => Codes(h) = <<StatusNotFound>>

C2_UnknownIdSteps ==
    \A h \in Handlers :
        (StepOf(h) /\ IdRequest(h) /\ ParsedId(h).err = Nil
             /\ ParsedId(h).val \notin DOMAIN pipelines) =>
            pipelines' = pipelines

C2_UnknownIdIs404 == []C2_UnknownIdStates /\ [][C2_UnknownIdSteps]_vars

\* An unknown integer id has been answered.
C2_Witness ==
    \E h \in Handlers :
        /\ Done(h) /\ req[h].route = DeletePipeline
        /\ ParsedId(h).err = Nil
        /\ lookups[h] = <<ParsedId(h).val>>
        /\ ~loc[h].exists

\* C3: a listing answers 200 with exactly the identities of the registered
\* pipelines that satisfy its predicate (all for /pipelines, status
\* Running for /running), each once, in strictly ascending order.  While
\* the listing holds the lock and no pipeline has changed since it took
\* it, the identities collected are those of the visited pipelines that
\* satisfy the predicate; the loop ends when every key is visited; the
\* body sent is the collected identities, ascending.
C3_ListingExact ==
    \A h \in Handlers :
        req[h].route \in ListRoutes =>
            /\ (pc[h] = "sf_range" /\ steady[h]) =>
                   /\ Range(loc[h].response) =
                          {i \in loc[h].visited :
                               IF req[h].route = GetRunning
                               THEN pipelines[i].Status = "Running"
                               ELSE TRUE}
                   /\ Len(loc[h].response) = Cardinality(Range(loc[h].response))
            /\ pc[h] \in {"sf_reply", "done"} => loc[h].visited \in instants[h]
            /\ Done(h) =>
                   /\ Codes(h) = <<StatusOK>>
                   /\ Ascending(replies[h][1].body[2])
                   /\ Range(replies[h][1].body[2]) = Range(loc[h].response)

\* A listing of two pipelines that the map yielded in descending order.
C3_Witness ==
    \E h \in Handlers :
        /\ Done(h) /\ req[h].route = GetPipelines
        /\ Len(loc[h].response) = 2
        /\ loc[h].response[1] > loc[h].response[2]
        /\ steady[h]

\* C4: the identities a listing returns are the key set the map had at one
\* instant of the listing: the key set does not change while the listing
\* reads the map, whatever creations run at the same time, and every
\* identity returned is the key of an inserted pipeline.
C4_ListingSnapshot ==
    \A h \in Handlers :
        req[h].route \in ListRoutes =>
            /\ pc[h] \in {"sf_range", "sf_reply", "done"} =>
                   Cardinality(instants[h]) = 1
            /\ Range(loc[h].response) \subseteq DOMAIN pipelines
            /\ (Done(h) /\ req[h].route = GetPipelines) =>
                   Range(replies[h][1].body[2]) \in instants[h]

\* A listing is reading the map while a creation waits for the lock.
C4_Witness ==
    \E h \in Handlers, g \in Handlers :
        /\ pc[h] = "sf_range" /\ loc[h].visited # {}
        /\ req[g].route = PostPipeline /\ pc[g] = "np_call"

\* C5: a handler that is about to call Kill or GetOutput, or to write its
\* response, does not hold pipelinesLock; the lock is held only while the
\* map is read.
C5_NoLockOutsideMap ==
    \A h \in Handlers :
        /\ pc[h] \in {"gp_parse", "gp_return", "sg_pipe", "so_pipe", "sk_pipe",
                      "sf_reply", "np_read", "np_reply", "done"} =>
               h \notin pipelinesLock
        /\ (h \in pipelinesLock /\ req[h].route # PostPipeline) =>
               pc[h] \in {"sf_range", "gp_lookup"}

\* A handler is about to kill a pipeline while another one holds the lock.
C5_Witness ==
    \E h \in Handlers, g \in Handlers :
        /\ pc[h] = "sk_pipe" /\ loc[h].pipeline # NilPipeline
        /\ g \in pipelinesLock

\* A POST request that was read and has an empty body, an unparsable delay
\* or unparsable params.
InvalidPost(r) ==
    /\ r.route = PostPipeline
    /\ r.bodyErr = Nil
    /\ \/ r.body = <<>>
       \/ r.delay # <<>> /\ ParseDuration(r.delay).err # Nil
       \/ r.params # <<>> /\ Split(r.params).err # Nil

\* C6: a POST /pipeline request (whose body could be read) with an empty
\* body, or a present and unparsable delay, or present and unparsable
\* params, is answered 400 and nothing else; NewPipeline is not called for
\* it, and none of its steps changes the identity counter or the map.
C6_InvalidPostStates ==
    \A h \in Handlers :
        InvalidPost(req[h]) =>
            /\ calls[h] = <<>>
            /\ pc[h] \in {"np_read", "done"}
            /\ Done(h) => Codes(h) = <<StatusBadRequest>>

C6_InvalidPostSteps ==
    \A h \in Handlers :
        (StepOf(h) /\ InvalidPost(req[h])) =>
            /\ nextPipelineId' = nextPipelineId
            /\ pipelines' = pipelines

C6_InvalidPostRejected == []C6_InvalidPostStates /\ [][C6_InvalidPostSteps]_vars

\* A request with unparsable params has been answered.
C6_Witness ==
    \E h \in Handlers :
        /\ Done(h) /\ InvalidPost(req[h])
        /\ req[h].body # <<>> /\ req[h].delay = <<>>

\* C7: every call of NewPipeline is made with a non-empty script and a
\* delay that is not negative.
C7_CallPreconditions ==
    \A h \in Handlers :
        \A i \in 1..Len(calls[h]) :
            /\ calls[h][i].script # <<>>
            /\ calls[h][i].delay >= 0

\* C8: NewPipeline is called with a delay of 200 milliseconds when the
\* delay parameter is absent and with the parsed value when it is present,
\* and with no extra parameters when the params parameter is absent.
C8_DefaultArguments ==
    \A h \in Handlers :
        \A i \in 1..Len(calls[h]) :
            /\ req[h].delay = <<>> => calls[h][i].delay = 200 * 1000000
            /\ req[h].delay # <<>> =>
                   calls[h][i].delay = ParseDuration(req[h].delay).val
            /\ req[h].params = <<>> => calls[h][i].extraParams = <<>>

\* NewPipeline has been called for a request with a delay parameter and
\* for one without.
C8_Witness ==
    /\ \E h \in Handlers :
         /\ Len(calls[h]) = 1 /\ req[h].delay = <<>> /\ req[h].params = <<>>
    /\ \E h \in Handlers :
         /\ Len(calls[h]) = 1 /\ req[h].delay = <<"1", "s">>
         /\ calls[h][1].delay = 1000000000

\* C9: a POST /pipeline request that passed validation is answered 412
\* when NewPipeline returned an error, with or without a pipeline, and 201
\* otherwise.
C9_CreationReply ==
    \A h \in Handlers :
        (req[h].route = PostPipeline /\ Done(h) /\ calls[h] # <<>>) =>
            IF loc[h].err # Nil
            THEN Codes(h) = <<StatusPreconditionFailed>>
            ELSE Codes(h) = <<StatusCreated>>

\* C10: when Kill or GetOutput returned an error the handler's reply to it
\* is 500 and the call changed neither the map nor a pipeline; when it
\* succeeded the reply is 200, with the pipeline for DELETE and with the
\* output for /out.
C10_OperationStates ==
    \A h \in Handlers :
        (Done(h) /\ ops[h] # <<>>) =>
            LET o == ops[h][Len(ops[h])]
            IN  /\ Len(ops[h]) = 1
                /\ replies[h] # <<>>
                /\ o.err # Nil =>
                       LastReply(h).code = StatusInternalServerError
                /\ o.err = Nil =>
                       /\ LastReply(h).code = StatusOK
                       /\ LastReply(h).body =
                              IF o.op = "Kill" THEN <<"pipeline", o.id>>
                              ELSE <<"output", o.id>>

C10_OperationSteps ==
    \A h \in Handlers :
        (Len(ops'[h]) > Len(ops[h]) /\ ops'[h][Len(ops'[h])].err # Nil) =>
            pipelines' = pipelines

Created(i) ==
    \E h \in Handlers :
        \E k \in 1..Len(replies[h]) :
            /\ replies[h][k].code = StatusCreated
            /\ replies[h][k].body = pipelineResponse(i)

\* C11: an identity that POST /pipeline has replied 201 for is a key of
\* the map in every later state, whatever requests and status changes
\* follow: no step removes a key, a lookup of the identity made after the
\* 201 finds the pipeline and the request is not answered 404, and a
\* listing of all pipelines made after the 201 collects the identity.
C11_CreatedStates ==
    /\ \A i \in Ids : Created(i) => i \in DOMAIN pipelines
    /\ \A g \in Handlers :
           (IdRequest(g) /\ ParsedId(g).err = Nil /\ loc[g].exists) =>
               StatusNotFound \notin Range(Codes(g))

C11_CreatedSteps ==
    /\ DOMAIN pipelines \subseteq DOMAIN pipelines'
    /\ \A g \in Handlers :
           (pc[g] = "gp_lookup" /\ pc'[g] = "gp_return"
                /\ Created(loc[g].id)) => loc'[g].exists
    /\ \A g \in Handlers :
           (pc[g] = "sf_range" /\ pc'[g] = "sf_reply"
                /\ req[g].route = GetPipelines) =>
               \A i \in Ids : Created(i) => i \in Range(loc[g].response)

C11_CreatedStaysRegistered ==
    []C11_CreatedStates /\ [][C11_CreatedSteps]_vars

\* A pipeline that was created with 201 and has since ended has been
\* fetched with 200.
C11_Witness ==
    \E g \in Handlers :
        /\ Done(g) /\ req[g].route = GetPipeline
        /\ Codes(g) = <<StatusOK>>
        /\ Created(loc[g].id)
        /\ pipelines[loc[g].id].Status \in {StatusFailed, StatusFinished}

\* Handler h is a creation that holds an identity the counter issued.
Issued(h) ==
    /\ req[h].route = PostPipeline
    /\ \/ pc[h] \in {"np_advance", "np_insert", "np_return"}
       \/ pc[h] \in {"np_reply", "done"} /\ loc[h].pipeline # NilPipeline

\* C12: under every interleaving of creations, the identity a creation
\* is issued is greater than every identity issued before it (the keys of
\* the map and the identities the other creations hold), no two
\* creations hold the same identity, the counter never moves back and
\* stays above every key, also when the pipeline of an identity has
\* failed at start.
C12_IdentityStates ==
    /\ \A i \in DOMAIN pipelines : i < nextPipelineId
    /\ \A h \in Handlers, g \in Handlers :
           (h # g /\ Issued(h) /\ Issued(g)) => loc[h].id # loc[g].id
    /\ \A h \in Handlers :
           (Issued(h) /\ pc[h] # "np_advance") => loc[h].id < nextPipelineId

C12_IdentitySteps ==
    /\ nextPipelineId' >= nextPipelineId
    /\ \A h \in Handlers :
           (pc[h] = "np_alloc" /\ pc'[h] = "np_advance") =>
               /\ \A i \in DOMAIN pipelines : loc'[h].id > i
               /\ \A g \in Handlers : Issued(g) => loc'[h].id > loc[g].id

C12_IdentitiesIncrease ==
    []C12_IdentityStates /\ [][C12_IdentitySteps]_vars

\* Two creations have ended, the pipeline of the first failed at start
\* and the second was issued a greater identity.
C12_Witness ==
    \E h \in Handlers, g \in Handlers :
        /\ Done(h) /\ Done(g) /\ Issued(h) /\ Issued(g)
        /\ loc[h].err # Nil
        /\ pipelines[loc[h].id].Status = StatusFailed
        /\ loc[h].id < loc[g].id

\* The status changes of the life cycle as the state table lists them.
TableEdges ==
    {<<StatusPending, StatusRunning>>, <<StatusPending, StatusFailed>>,
     <<StatusRunning, StatusFinished>>, <<StatusRunning, StatusKilled>>}

\* The status changes of the state table and of the kill of a pipeline
\* whose start is still pending.
LifeEdges == TableEdges \cup {<<StatusPending, StatusKilled>>}

\* The changes of status made by the step.
StatusChanges ==
    {<<pipelines[i].Status, pipelines'[i].Status>> :
        i \in {j \in DOMAIN pipelines \cap DOMAIN pipelines' :
                  pipelines'[j].Status # pipelines[j].Status}}

\* C13 as stated: a status changes only along Pending->Running,
\* Pending->Failed, Running->Finished and Running->Killed.
C13_TableOnly == [][StatusChanges \subseteq TableEdges]_vars

\* C13: a status changes only along Pending->Running, Pending->Failed,
\* Pending->Killed, Running->Finished and Running->Killed: it never
\* returns to an earlier status, and a Failed, Killed or Finished
\* pipeline never changes again, whatever start, exit, kill and output
\* operations follow.
C13_StatusForward == [][StatusChanges \subseteq LifeEdges]_vars

\* A successful Kill has been answered for a pipeline that had finished.
C13_Witness ==
    \E h \in Handlers :
        /\ Done(h) /\ Len(ops[h]) = 1
        /\ ops[h][1].op = "Kill" /\ ops[h][1].err = Nil
        /\ pipelines[ops[h][1].id].Status = StatusFinished

\* The step is a call of Kill by handler h.
KillCall(h) ==
    /\ Len(ops'[h]) > Len(ops[h])
    /\ ops'[h][Len(ops'[h])].op = "Kill"

\* Handler h has made a successful call of Kill.
Killer(h) ==
    /\ ops[h] # <<>>
    /\ ops[h][Len(ops[h])].op = "Kill"
    /\ ops[h][Len(ops[h])].err = Nil

Ended == {StatusFailed, StatusKilled, StatusFinished}

\* What every call of Kill leaves alone: the key set, the other
\* pipelines, and a pipeline that is Killed already.
KillFrame(h) ==
    LET o == ops'[h][Len(ops'[h])]
    IN  /\ DOMAIN pipelines' = DOMAIN pipelines
        /\ \A j \in DOMAIN pipelines \ {o.id} : pipelines'[j] = pipelines[j]
        /\ pipelines[o.id].Status = StatusKilled =>
               pipelines'[o.id].Status = StatusKilled
        /\ o.err # Nil => pipelines' = pipelines

C14_KillStates ==
    \A h \in Handlers :
        Killer(h) =>
            /\ ops[h][Len(ops[h])].id \in DOMAIN pipelines
            /\ pipelines[ops[h][Len(ops[h])].id].Status \in Ended

C14_KillSteps ==
    \A h \in Handlers :
        KillCall(h) =>
            LET o == ops'[h][Len(ops'[h])]
            IN  /\ KillFrame(h)
                /\ (o.err = Nil /\ pipelines[o.id].Status \notin Ended) =>
                       pipelines'[o.id].Status = StatusKilled
                /\ pipelines[o.id].Status \in Ended =>
                       pipelines'[o.id] = pipelines[o.id]

C15_PendingKillStates ==
    \A h \in Handlers :
        (Killer(h) /\ ops[h][Len(ops[h])].was = StatusPending) =>
            pipelines[ops[h][Len(ops[h])].id].Status = StatusKilled

C15_PendingKillSteps ==
    /\ \A h \in Handlers :
           (KillCall(h) /\ ops'[h][Len(ops'[h])].err = Nil
                /\ pipelines[ops'[h][Len(ops'[h])].id].Status = StatusPending) =>
               pipelines'[ops'[h][Len(ops'[h])].id].Status = StatusKilled
    /\ \A i \in DOMAIN pipelines :
           pipelines[i].Status = StatusKilled =>
               /\ i \in DOMAIN pipelines'
               /\ pipelines'[i].Status = StatusKilled

C15_PendingKillCancelsStart ==
    []C15_PendingKillStates /\ [][C15_PendingKillSteps]_vars

\* A pipeline was killed while Pending, right after its creation was
\* answered, and the request has ended.
C15_Witness ==
    \E h \in Handlers :
        /\ Done(h) /\ Killer(h) /\ ops[h][1].was = StatusPending
        /\ Created(ops[h][1].id)
        /\ pipelines[ops[h][1].id].Status = StatusKilled

\* C16: when the exit of a Running pipeline and a Kill race, the status
\* after the Kill has returned with success is Finished or Killed and
\* never Running: Killed when the pipeline was Running at the call,
\* Finished when the exit had taken effect before it, from the state in
\* which Kill returns on; and no step changes a Finished status.
C16_RaceStates ==
    \A h \in Handlers :
        Killer(h) =>
            LET o == ops[h][Len(ops[h])]
            IN  /\ pipelines[o.id].Status # StatusRunning
                /\ o.was = StatusRunning =>
                       pipelines[o.id].Status = StatusKilled
                /\ o.was = StatusFinished =>
                       pipelines[o.id].Status = StatusFinished

C16_RaceSteps ==
    \A i \in DOMAIN pipelines :
        pipelines[i].Status = StatusFinished =>
            pipelines'[i].Status = StatusFinished

C16_ExitKillRace == []C16_RaceStates /\ [][C16_RaceSteps]_vars

\* Kill has just returned for a pipeline that was Running; its handler
\* has written the reply and the pipeline is Killed.
C16_Witness ==
    \E h \in Handlers :
        /\ Done(h) /\ Killer(h)
        /\ ops[h][1].was = StatusRunning
        /\ LastReply(h).code = StatusOK
        /\ pipelines[ops[h][1].id].Status = StatusKilled

\* The routes that only read.
ReadRoutes == {GetPipelines, GetRunning, GetPipeline, GetPipelineOut}

\* C17: no step of a handler of GET /pipelines, GET /running,
\* GET /pipeline/:id or GET /pipeline/:id/out changes the map: the key
\* set and the pipeline under each key are the same after the step.
C17_ReadersLeaveMap ==
    [][\A h \in Handlers :
          (StepOf(h) /\ req[h].route \in ReadRoutes) =>
              pipelines' = pipelines]_vars

\* A listing and a request for the output of a registered pipeline have
\* both been answered.
C17_Witness ==
    \E h \in Handlers, g \in Handlers :
        /\ Done(h) /\ req[h].route = GetPipelineOut /\ ops[h] # <<>>
        /\ Done(g) /\ req[g].route = GetRunning
        /\ Len(replies[g][1].body[2]) = 1

\* C18: Kill and GetOutput are called on a pipeline only by a request
\* whose id parameter parses as an integer that is the pipeline's
\* identity; a request with a non-integer id calls neither, whatever
\* pipelines are registered.
C18_OperationsOnNamedPipeline ==
    \A h \in Handlers :
        \A k \in 1..Len(ops[h]) :
            /\ ParsedId(h).err = Nil
            /\ ParsedId(h).val = ops[h][k].id

\* C19: a request on /pipeline/:id, /pipeline/:id/out, DELETE
\* /pipeline/:id or POST /pipeline has, when its handler returns, written
\* a status and a body exactly once.
C19_ExactlyOneReply ==
    \A h \in Handlers :
        (Done(h) /\ req[h].route \in IdRoutes \cup {PostPipeline}) =>
            Len(replies[h]) = 1

\* C20: at most one handler holds pipelinesLock at a time, a handler
\* that has returned does not hold it, and under fair scheduling every
\* request that has arrived is eventually completed, whatever list,
\* lookup, output, kill and creation requests run beside it.
C20_LockSafety ==
    /\ Cardinality(pipelinesLock) <= 1
    /\ \A h \in Handlers : Done(h) => h \notin pipelinesLock

C20_LockAndProgress ==
    /\ []C20_LockSafety
    /\ \A h \in Handlers : (pc[h] # "idle") ~> Done(h)

\* A lookup waits for the lock while a listing holds it.
C20_Witness ==
    \E h \in Handlers, g \in Handlers :
        /\ pc[h] = "gp_lock"
        /\ pc[g] = "sf_range" /\ pipelinesLock = {g}
====
